---- MODULE Spec2Model ----
(***************************************************************************)
(* Model of the Go live-transcription starter: the WebSocket proxy of      *)
(* src/unnamed/part_001 (JWT admission control, the two forwarding         *)
(* goroutines per session, the activeConnections registry and              *)
(* gracefulShutdown).                                                      *)
(*                                                                         *)
(* Time is counted in ticks; a second is TicksPerSecond ticks, so that the *)
(* truncation to whole seconds done by jwt.NewNumericDate is visible.      *)
(* The hour of jwtExpiry is scaled down to HourSeconds seconds.            *)
(***************************************************************************)
EXTENDS Integers, Sequences, FiniteSets, TLC

\* ------------------------------------------------------------------ bounds
TicksPerSecond == 2
HourSeconds == 2
MaxTime == 7
MaxIssueDelay == 1
MaxProtocols == 3
MaxIssued == 1
MaxMsgs == 2
\* pairs in the query of a client's request
MaxQuery == 2
\* results the upstream delivers to the SDK test
MaxResults == 2
\* messages a client sends to an SDK variant's handler
MaxClientMsgs == 2

\* ------------------------------------------------------------ auth: tokens
VARIABLES
    now,        \* time.Now(), in ticks
    issued,     \* token strings handed out by handleSession
    call        \* the last application of validateToken / validateWsToken

authVars == <<now, issued, call>>

\* ------------------------------------------------- proxy: state variables
VARIABLES
    hpc,        \* per session: where its handleLiveTranscription call stands
    offer,      \* per session: websocket.Subprotocols(r) of its request
    proto,      \* per session: the Sec-WebSocket-Protocol value sent back
    conn,       \* per session: clientConn and deepgramConn, server side
    sent,       \* per session and direction: the messages the source peer sends
    inq,        \* per session and direction: those not yet read by the forwarder
    out,        \* per session and connection: the frames written to that peer
    fpc,        \* per session and direction: where forwardMessages stands
    fmsg,       \* per session and direction: msgType, data of the last read
    counter,    \* per session and direction: *counter
    doneCh,     \* per session: signals buffered in the done channel
    dials,      \* per session: calls of dialer.Dial
    hops,       \* per session: what the handler did to its connections, in order
    registry,   \* activeConnections (a client connection is named by its session)
    spc,        \* where gracefulShutdown stands
    cur,        \* the key the Range callback is running on
    visited,    \* the keys the second Range has called back on
    snapshot,   \* the keys present when the second Range began
    atSignal,   \* the keys present when the signal arrived
    sops,       \* what gracefulShutdown did, in order
    listening,  \* the HTTP server accepts requests
    proc        \* the process: running, crashed (panic) or exited (main returned)

proxyVars == <<hpc, offer, proto, conn, sent, inq, out, fpc, fmsg, counter,
               doneCh, dials, hops, registry, spc, cur, visited, snapshot, atSignal,
               sops, listening, proc>>

\* ---------------------------------------------- SDK test: state variables
VARIABLES
    tpc,        \* where TestDeepgramLiveTranscription stands
    cpc,        \* where the goroutine running the Message callback stands
    results,    \* the results the upstream has yet to deliver
    sb,         \* the callback's strings.Builder, as the strings written to it
    cmsg,       \* the result the callback is signalling for
    signals,    \* the results whose signal the test has received
    stopped,    \* dgClient.Stop has been called
    tproc       \* the test process: running or panicked

sdkVars == <<tpc, cpc, results, sb, cmsg, signals, stopped, tproc>>

\* ------------------------------------------ SDK variants: state variables
VARIABLES
    variant,    \* the program: "chan" (main.go) or "socket" (part_000)
    wpc,        \* where handleWebSocket stands
    wconn,      \* conn, the client's WebSocket connection, server side
    dg,         \* dgClient: none, connected or stopped
    clientMsg,  \* clientMsg.Type, kept from one loop iteration to the next
    csent,      \* the messages the client sends
    cin,        \* those the handler has not read yet
    cclosed,    \* whether and how the client has closed
    upAudio,    \* the payloads dgClient.Write has sent upstream
    dres,       \* the results Deepgram has yet to deliver
    kpc,        \* where the goroutine running the Message callback stands
    kmsg,       \* the result the callback is sending on SendChan
    wout,       \* what has been written to the client
    wproc       \* the process: running, exited (os.Exit) or crashed (panic)

wsVars == <<variant, wpc, wconn, dg, clientMsg, csent, cin, cclosed, upAudio, dres,
            kpc, kmsg, wout, wproc>>

vars == <<now, issued, call, proxyVars, sdkVars, wsVars>>

\* a result as the callback sees it; the test is not running
NoResult == [alternatives |-> 0, transcript |-> "", isFinal |-> FALSE, speechFinal |-> FALSE]

SdkTestOff ==
    /\ tpc = "off"
    /\ cpc = "idle"
    /\ results = <<>>
    /\ sb = <<>>
    /\ cmsg = NoResult
    /\ signals = <<>>
    /\ stopped = FALSE
    /\ tproc = "running"

\* no SDK variant is running
WsOff ==
    /\ variant = "none"
    /\ wpc = "off"
    /\ wconn = "none"
    /\ dg = "none"
    /\ clientMsg = ""
    /\ csent = <<>>
    /\ cin = <<>>
    /\ cclosed = "no"
    /\ upAudio = <<>>
    /\ dres = <<>>
    /\ kpc = "idle"
    /\ kmsg = NoResult
    /\ wout = <<>>
    /\ wproc = "running"

jwtExpiry == HourSeconds * TicksPerSecond

SessionSecret == "secret"
OtherSecret == "other"
Secrets == {SessionSecret, OtherSecret}

\* a registered claim that the token does not carry
NoClaim == -1

HMACAlgs == {"HS256", "HS384", "HS512"}
Algs == {"HS256", "HS384", "RS256", "none"}

\* jwt.NewNumericDate: a time truncated to whole seconds
NumericDate(t) == t \div TicksPerSecond

\* the instant (in ticks) a NumericDate stands for
DateTicks(d) == d * TicksPerSecond

MaxSeconds == MaxTime \div TicksPerSecond
ClaimTimes == {NoClaim} \cup (0..MaxSeconds)

\* a decoded JWT: header algorithm, the key its signature was made with, and
\* the registered time claims the validator of jwt/v5 looks at
Tokens == [alg : Algs, sig : Secrets, iat : ClaimTimes, exp : ClaimTimes, nbf : ClaimTimes]

NoJWT == [alg |-> "", sig |-> "", iat |-> NoClaim, exp |-> NoClaim, nbf |-> NoClaim]

\* A string is a sequence of symbols: a literal piece of text or a compact JWT.
Lit(c) == [lit |-> c, jwt |-> NoJWT]
Jwt(tok) == [lit |-> "", jwt |-> tok]

EmptyString == <<>>
AccessPrefix == <<Lit("access_token"), Lit(".")>>

\* strings.HasPrefix
HasPrefix(s, p) == Len(s) >= Len(p) /\ SubSeq(s, 1, Len(p)) = p

\* strings.TrimPrefix
TrimPrefix(s, p) == IF HasPrefix(s, p) THEN SubSeq(s, Len(p) + 1, Len(s)) ELSE s

\* jwt.Parse can decode the string at all
IsJWT(tokenStr) == Len(tokenStr) = 1 /\ tokenStr[1].lit = ""

\* mutant of issueToken: the expiry is not added
issueTokenNoExpiry(secret, d) ==
    <<Jwt([alg |-> "HS256", sig |-> secret, iat |-> NumericDate(now),
           exp |-> NumericDate(now + d), nbf |-> NoClaim])>>

\* issueToken; its two time.Now() reads are d ticks apart
issueToken(secret, d) ==
    <<Jwt([alg |-> "HS256", sig |-> secret, iat |-> NumericDate(now),
           exp |-> NumericDate(now + d + jwtExpiry), nbf |-> NoClaim])>>

\* mutant of validateTokenAt: the signature is not compared with the secret
validateTokenAtNoSig(tokenStr, secret, t) ==
    IF ~IsJWT(tokenStr) THEN "ErrTokenMalformed"
    ELSE LET tok == tokenStr[1].jwt IN
         IF tok.alg \notin HMACAlgs THEN "ErrTokenUnverifiable"
         ELSE IF tok.exp # NoClaim /\ ~(t < DateTicks(tok.exp)) THEN "ErrTokenExpired"
         ELSE IF tok.nbf # NoClaim /\ t < DateTicks(tok.nbf) THEN "ErrTokenNotValidYet"
         ELSE "nil"

\* mutant of validateTokenAt: a token is still good at the instant it expires
validateTokenAtLate(tokenStr, secret, t) ==
    IF ~IsJWT(tokenStr) THEN "ErrTokenMalformed"
    ELSE LET tok == tokenStr[1].jwt IN
         IF tok.alg \notin HMACAlgs THEN "ErrTokenUnverifiable"
         ELSE IF tok.sig # secret THEN "ErrTokenSignatureInvalid"
         ELSE IF tok.exp # NoClaim /\ ~(t <= DateTicks(tok.exp)) THEN "ErrTokenExpired"
         ELSE IF tok.nbf # NoClaim /\ t < DateTicks(tok.nbf) THEN "ErrTokenNotValidYet"
         ELSE "nil"

\* validateToken at time t: jwt.Parse with the key function of the source (HMAC
\* methods only), then the default claims validation of jwt/v5: exp and nbf
\* are checked when present, iat is not checked, no claim is required.
validateTokenAt(tokenStr, secret, t) ==
    IF ~IsJWT(tokenStr) THEN "ErrTokenMalformed"
    ELSE LET tok == tokenStr[1].jwt IN
         IF tok.alg \notin HMACAlgs THEN "ErrTokenUnverifiable"
         ELSE IF tok.sig # secret THEN "ErrTokenSignatureInvalid"
         ELSE IF tok.exp # NoClaim /\ ~(t < DateTicks(tok.exp)) THEN "ErrTokenExpired"
         ELSE IF tok.nbf # NoClaim /\ t < DateTicks(tok.nbf) THEN "ErrTokenNotValidYet"
         ELSE "nil"

validateToken(tokenStr, secret) == validateTokenAt(tokenStr, secret, now)

RECURSIVE validateWsTokenFrom(_, _, _)
\* the loop of validateWsToken from index i on
validateWsTokenFrom(protocols, secret, i) ==
    IF i > Len(protocols) THEN EmptyString
    ELSE IF /\ HasPrefix(protocols[i], AccessPrefix)
            /\ validateToken(TrimPrefix(protocols[i], AccessPrefix), secret) = "nil"
         THEN protocols[i]
         ELSE validateWsTokenFrom(protocols, secret, i + 1)

\* mutant of validateWsToken: the token is returned without its prefix
validateWsTokenTrimmed(protocols, secret) ==
    TrimPrefix(validateWsTokenFrom(protocols, secret, 1), AccessPrefix)

validateWsToken(protocols, secret) == validateWsTokenFrom(protocols, secret, 1)

\* ---------------------------------------------- auth: the inputs explored
\* token strings given to validateToken
TokenStrings == {<<Jwt(t)>> : t \in Tokens} \cup {EmptyString, <<Lit("garbage")>>}

\* tokens that appear in offered subprotocol lists
SampleTokens ==
    { [alg |-> "HS256", sig |-> SessionSecret, iat |-> 0, exp |-> HourSeconds, nbf |-> NoClaim],
      [alg |-> "HS256", sig |-> SessionSecret, iat |-> 1, exp |-> 1 + HourSeconds, nbf |-> NoClaim],
      [alg |-> "HS256", sig |-> OtherSecret, iat |-> 0, exp |-> HourSeconds, nbf |-> NoClaim] }

GoodSample == [alg |-> "HS256", sig |-> SessionSecret, iat |-> 0, exp |-> HourSeconds, nbf |-> NoClaim]

ProtocolStrings ==
    {AccessPrefix \o <<Jwt(t)>> : t \in SampleTokens}
      \cup { <<Jwt(GoodSample)>>,
             <<Lit("access_token"), Jwt(GoodSample)>>,
             AccessPrefix,
             <<Lit("json")>> }

SeqsUpTo(S, n) == UNION {[1..k -> S] : k \in 0..n}

OfferedLists == SeqsUpTo(ProtocolStrings, MaxProtocols)

\* the applications of validateToken and validateWsToken that are explored
PendingCalls ==
    {[fn |-> "validateToken", tokenStr |-> ts, secret |-> k, at |-> NoClaim, err |-> "pending"] :
        ts \in TokenStrings, k \in Secrets}
      \cup
    {[fn |-> "validateWsToken", protocols |-> ps, secret |-> SessionSecret, at |-> NoClaim,
      ret |-> EmptyString] : ps \in OfferedLists}

NoCall == [fn |-> "none", at |-> NoClaim]

\* -------------------------------------------------------- proxy: the data
Sessions == {"s1", "s2"}

\* the two forwardMessages goroutines: "client->deepgram" and "deepgram->client"
Dirs == {"c2u", "u2c"}

\* clientConn and deepgramConn
Conns == {"client", "upstream"}

Src(d) == IF d = "c2u" THEN "client" ELSE "upstream"
Dst(d) == IF d = "c2u" THEN "upstream" ELSE "client"

\* the forwarder whose dst is connection x
WriterTo(x) == IF x = "client" THEN "u2c" ELSE "c2u"

TextMessage == "text"
BinaryMessage == "binary"
CloseMessage == "close"

CloseNormalClosure == 1000
CloseGoingAway == 1001
CloseInternalServerErr == 1011

\* capacity of the done channel
DoneCap == 2

NoMsg == [type |-> "", code |-> 0, data |-> ""]

\* websocket.FormatCloseMessage(code, text) sent as a CloseMessage
CloseFrame(code, text) == [type |-> CloseMessage, code |-> code, data |-> text]

\* what a data frame becomes on the wire when two goroutines fill the
\* connection's write buffer at once
Garbled(m) == [type |-> m.type, code |-> 0, data |-> "corrupt"]

\* the time at which the proxy is explored, and the requests made then: the
\* token issued at second 0 has expired, the one issued at second 1 has not
SessionNow == jwtExpiry

LaterSample == [alg |-> "HS256", sig |-> SessionSecret, iat |-> 1, exp |-> 1 + HourSeconds, nbf |-> NoClaim]
ForgedSample == [alg |-> "HS256", sig |-> OtherSecret, iat |-> 1, exp |-> 1 + HourSeconds, nbf |-> NoClaim]
UnexpiringSample == [alg |-> "HS256", sig |-> SessionSecret, iat |-> NoClaim, exp |-> NoClaim, nbf |-> NoClaim]

Protocol(tok) == AccessPrefix \o <<Jwt(tok)>>

SessionOffers ==
    { <<>>,
      << <<Lit("json")>> >>,
      << Protocol(GoodSample) >>,
      << Protocol(ForgedSample), <<Jwt(LaterSample)>> >>,
      << <<Lit("json")>>, Protocol(ForgedSample), Protocol(LaterSample), Protocol(UnexpiringSample) >> }

shutdownVars == <<spc, cur, visited, snapshot, atSignal, sops>>
peerVars == <<sent, inq>>
requestVars == <<offer, proto>>

Running == proc = "running"

\* The first n messages a peer sends: the client starts with a binary audio
\* chunk, the upstream with a text result, and consecutive messages differ
\* in type and payload.
AudioMsg == [type |-> BinaryMessage, code |-> 0, data |-> "b"]
ResultMsg == [type |-> TextMessage, code |-> 0, data |-> "a"]
StreamOf(d, n) ==
    [i \in 1..n |-> IF (i % 2 = 1) <=> (d = "c2u") THEN AudioMsg ELSE ResultMsg]

\* The messages the two peers of a session send, per direction. A message
\* that arrives while the forwarder is blocked in ReadMessage and one that
\* waits in the connection's buffer lead to the same reads, so the streams
\* are fixed when the session's connections are made.
Streams ==
    { [d \in Dirs |-> StreamOf(d, n[d])] :
        n \in {f \in [Dirs -> 0..MaxMsgs] : f["c2u"] + f["u2c"] <= MaxMsgs} }

\* -------------------------------------------------- proxy: initial state
ProxyInit ==
    /\ hpc = [s \in Sessions |-> "idle"]
    /\ offer = [s \in Sessions |-> <<>>]
    /\ proto = [s \in Sessions |-> EmptyString]
    /\ conn = [s \in Sessions |-> [x \in Conns |-> "none"]]
    /\ sent = [s \in Sessions |-> [d \in Dirs |-> <<>>]]
    /\ inq = [s \in Sessions |-> [d \in Dirs |-> <<>>]]
    /\ out = [s \in Sessions |-> [x \in Conns |-> <<>>]]
    /\ fpc = [s \in Sessions |-> [d \in Dirs |-> "off"]]
    /\ fmsg = [s \in Sessions |-> [d \in Dirs |-> NoMsg]]
    /\ counter = [s \in Sessions |-> [d \in Dirs |-> 0]]
    /\ doneCh = [s \in Sessions |-> 0]
    /\ dials = [s \in Sessions |-> 0]
    /\ hops = [s \in Sessions |-> <<>>]
    /\ registry = {}
    /\ spc = "waiting"
    /\ cur = ""
    /\ visited = {}
    /\ snapshot = {}
    /\ atSignal = {}
    /\ sops = <<>>
    /\ listening = TRUE
    /\ proc = "running"

\* ------------------------------------- proxy: writes to a gorilla Conn
\* A forwarder that has read a message is in, or about to enter,
\* dst.WriteMessage; the shutdown callback is in conn.WriteMessage from the
\* moment it is called on a key.
ForwarderWriting(s, x) == fpc[s][WriterTo(x)] \in {"write", "writeRaced"}
ShutdownWriting(s, x) == x = "client" /\ cur = s /\ spc \in {"write", "writeRaced"}

\* WriteMessage(CloseMessage, FormatCloseMessage(code, text)) by the session
\* handler on connection x. gorilla allows one writer at a time: when another
\* goroutine is writing x (race), the result is undefined; the outcomes kept
\* here are the frame going out all the same and gorilla's panic("concurrent
\* write to websocket connection") in this goroutine, and the other writer
\* is marked as having raced. Otherwise the frame goes out when the
\* connection is open and no close frame has been written on it, and the
\* write fails when not (the error is ignored by the caller).
HandlerWrite(s, x, code, text, race, panics) ==
    /\ race => (ForwarderWriting(s, x) \/ ShutdownWriting(s, x))
    /\ panics => race
    /\ fpc' = IF race /\ fpc[s][WriterTo(x)] = "write"
              THEN [fpc EXCEPT ![s][WriterTo(x)] = "writeRaced"] ELSE fpc
    /\ spc' = IF race /\ ShutdownWriting(s, x) THEN "writeRaced" ELSE spc
    /\ hops' = [hops EXCEPT ![s] = Append(@, <<"write", x, code>>)]
    /\ IF ~panics /\ conn[s][x] = "open"
       THEN /\ conn' = [conn EXCEPT ![s][x] = "closeSent"]
            /\ out' = [out EXCEPT ![s][x] = Append(@, CloseFrame(code, text))]
       ELSE UNCHANGED <<conn, out>>

\* ------------------------------------ proxy: handleLiveTranscription
\* mutant of HandleRequest: the connection is upgraded whatever the token
HandleRequestNoAuth(s, protocols, upgradeOk) ==
    /\ Running /\ listening
    /\ hpc[s] = "idle"
    /\ offer' = [offer EXCEPT ![s] = protocols]
    /\ hpc' = [hpc EXCEPT ![s] = "upgraded"]
    /\ proto' = [proto EXCEPT ![s] = validateWsToken(protocols, SessionSecret)]
    /\ conn' = [conn EXCEPT ![s]["client"] = "open"]
    /\ UNCHANGED <<authVars, sdkVars, wsVars, peerVars, out, fpc, fmsg, counter, doneCh, dials, hops,
                   registry, shutdownVars, listening, proc>>

\* mutant of HandleRequest: the upgrade answers with the last offered entry
HandleRequestEchoLast(s, protocols, upgradeOk) ==
    /\ Running /\ listening
    /\ hpc[s] = "idle"
    /\ offer' = [offer EXCEPT ![s] = protocols]
    /\ LET validProto == validateWsToken(protocols, SessionSecret) IN
       IF validProto = EmptyString
       THEN /\ hpc' = [hpc EXCEPT ![s] = "unauthorized"]
            /\ UNCHANGED <<proto, conn>>
       ELSE IF upgradeOk
            THEN /\ hpc' = [hpc EXCEPT ![s] = "upgraded"]
                 /\ proto' = [proto EXCEPT ![s] = protocols[Len(protocols)]]
                 /\ conn' = [conn EXCEPT ![s]["client"] = "open"]
            ELSE /\ hpc' = [hpc EXCEPT ![s] = "upgradeFailed"]
                 /\ UNCHANGED <<proto, conn>>
    /\ UNCHANGED <<authVars, sdkVars, wsVars, peerVars, out, fpc, fmsg, counter, doneCh, dials, hops,
                   registry, shutdownVars, listening, proc>>

\* the request up to the upgrade: validateWsToken, 401 or upgrader.Upgrade
HandleRequest(s, protocols, upgradeOk) ==
    /\ Running /\ listening
    /\ hpc[s] = "idle"
    /\ offer' = [offer EXCEPT ![s] = protocols]
    /\ LET validProto == validateWsToken(protocols, SessionSecret) IN
       IF validProto = EmptyString
       THEN /\ hpc' = [hpc EXCEPT ![s] = "unauthorized"]
            /\ UNCHANGED <<proto, conn>>
       ELSE IF upgradeOk
            THEN /\ hpc' = [hpc EXCEPT ![s] = "upgraded"]
                 /\ proto' = [proto EXCEPT ![s] = validProto]
                 /\ conn' = [conn EXCEPT ![s]["client"] = "open"]
            ELSE /\ hpc' = [hpc EXCEPT ![s] = "upgradeFailed"]
                 /\ UNCHANGED <<proto, conn>>
    /\ UNCHANGED <<authVars, sdkVars, wsVars, peerVars, out, fpc, fmsg, counter, doneCh, dials, hops,
                   registry, shutdownVars, listening, proc>>

\* mutant of Register: the handler goes on without storing the connection
RegisterSkipsStore(s) ==
    /\ Running
    /\ hpc[s] = "upgraded"
    /\ hpc' = [hpc EXCEPT ![s] = "registered"]
    /\ UNCHANGED <<authVars, sdkVars, wsVars, requestVars, conn, peerVars, out, fpc, fmsg, counter, doneCh,
                   dials, hops, registry, shutdownVars, listening, proc>>

\* activeConnections.Store(clientConn, true)
Register(s) ==
    /\ Running
    /\ hpc[s] = "upgraded"
    /\ registry' = registry \cup {s}
    /\ hpc' = [hpc EXCEPT ![s] = "registered"]
    /\ UNCHANGED <<authVars, sdkVars, wsVars, requestVars, conn, peerVars, out, fpc, fmsg, counter, doneCh,
                   dials, hops, shutdownVars, listening, proc>>

\* mutant of Dial: only the deepgram->client forwarder is started
DialOneForwarder(s, ok, streams) ==
    /\ Running
    /\ hpc[s] = "registered"
    /\ dials' = [dials EXCEPT ![s] = @ + 1]
    /\ IF ok
       THEN /\ conn' = [conn EXCEPT ![s]["upstream"] = "open"]
            /\ fpc' = [fpc EXCEPT ![s]["u2c"] = "read"]
            /\ hpc' = [hpc EXCEPT ![s] = "waitDone"]
            /\ sent' = [sent EXCEPT ![s] = streams]
            /\ inq' = [inq EXCEPT ![s] = streams]
       ELSE /\ hpc' = [hpc EXCEPT ![s] = "dialFailed"]
            /\ UNCHANGED <<conn, fpc, sent, inq>>
    /\ UNCHANGED <<authVars, sdkVars, wsVars, requestVars, out, fmsg, counter, doneCh, hops,
                   registry, shutdownVars, listening, proc>>

\* dialer.Dial: on success deepgramConn is open and the two forwardMessages
\* goroutines are started; on failure the handler goes on to line 315
Dial(s, ok, streams) ==
    /\ Running
    /\ hpc[s] = "registered"
    /\ dials' = [dials EXCEPT ![s] = @ + 1]
    /\ IF ok
       THEN /\ conn' = [conn EXCEPT ![s]["upstream"] = "open"]
            /\ fpc' = [fpc EXCEPT ![s] = [d \in Dirs |-> "read"]]
            /\ hpc' = [hpc EXCEPT ![s] = "waitDone"]
            /\ sent' = [sent EXCEPT ![s] = streams]
            /\ inq' = [inq EXCEPT ![s] = streams]
       ELSE /\ hpc' = [hpc EXCEPT ![s] = "dialFailed"]
            /\ UNCHANGED <<conn, fpc, sent, inq>>
    /\ UNCHANGED <<authVars, sdkVars, wsVars, requestVars, out, fmsg, counter, doneCh, hops,
                   registry, shutdownVars, listening, proc>>

\* mutant of DialFailedClose: the handler dials again after a failed dial
DialFailedRetry(s, race, panics) ==
    /\ Running
    /\ hpc[s] = "dialFailed"
    /\ ~race /\ ~panics
    /\ hpc' = [hpc EXCEPT ![s] = "registered"]
    /\ UNCHANGED <<authVars, sdkVars, wsVars, requestVars, conn, peerVars, out, fpc, fmsg, counter, doneCh,
                   dials, hops, registry, shutdownVars, listening, proc>>

\* mutant of DialFailedClose: the handler returns without writing the frame
DialFailedCloseSilent(s, race, panics) ==
    /\ Running
    /\ hpc[s] = "dialFailed"
    /\ ~race /\ ~panics
    /\ hpc' = [hpc EXCEPT ![s] = "deferDelete"]
    /\ UNCHANGED <<authVars, sdkVars, wsVars, requestVars, conn, peerVars, out, fpc, fmsg, counter, doneCh,
                   dials, hops, registry, shutdownVars, listening, proc>>

\* the close frame with CloseInternalServerErr after a failed dial, then return
DialFailedClose(s, race, panics) ==
    /\ Running
    /\ hpc[s] = "dialFailed"
    /\ HandlerWrite(s, "client", CloseInternalServerErr, "Failed to connect to Deepgram",
                    race, panics)
    /\ hpc' = [hpc EXCEPT ![s] = "deferDelete"]
    /\ UNCHANGED <<authVars, sdkVars, wsVars, requestVars, peerVars, fmsg, counter, doneCh, dials, registry,
                   cur, visited, snapshot, atSignal, sops, listening, proc>>

\* <-done
WaitDone(s) ==
    /\ Running
    /\ hpc[s] = "waitDone"
    /\ doneCh[s] > 0
    /\ doneCh' = [doneCh EXCEPT ![s] = @ - 1]
    /\ hpc' = [hpc EXCEPT ![s] = "closeClient"]
    /\ UNCHANGED <<authVars, sdkVars, wsVars, requestVars, conn, peerVars, out, fpc, fmsg, counter, dials,
                   hops, registry, shutdownVars, listening, proc>>

\* clientConn.WriteMessage(CloseMessage, CloseNormalClosure); a panic skips
\* the rest of the body and runs the deferred calls
CloseClient(s, race, panics) ==
    /\ Running
    /\ hpc[s] = "closeClient"
    /\ HandlerWrite(s, "client", CloseNormalClosure, "", race, panics)
    /\ hpc' = [hpc EXCEPT ![s] = IF panics THEN "deferCloseUpstream" ELSE "closeUpstream"]
    /\ UNCHANGED <<authVars, sdkVars, wsVars, requestVars, peerVars, fmsg, counter, doneCh, dials, registry,
                   cur, visited, snapshot, atSignal, sops, listening, proc>>

\* deepgramConn.WriteMessage(CloseMessage, CloseNormalClosure)
CloseUpstream(s, race, panics) ==
    /\ Running
    /\ hpc[s] = "closeUpstream"
    /\ HandlerWrite(s, "upstream", CloseNormalClosure, "Client disconnected", race, panics)
    /\ hpc' = [hpc EXCEPT ![s] = "deferCloseUpstream"]
    /\ UNCHANGED <<authVars, sdkVars, wsVars, requestVars, peerVars, fmsg, counter, doneCh, dials, registry,
                   cur, visited, snapshot, atSignal, sops, listening, proc>>

\* defer deepgramConn.Close()
DeferCloseUpstream(s) ==
    /\ Running
    /\ hpc[s] = "deferCloseUpstream"
    /\ conn' = [conn EXCEPT ![s]["upstream"] = "closed"]
    /\ hops' = [hops EXCEPT ![s] = Append(@, <<"close", "upstream", 0>>)]
    /\ hpc' = [hpc EXCEPT ![s] = "deferDelete"]
    /\ UNCHANGED <<authVars, sdkVars, wsVars, requestVars, peerVars, out, fpc, fmsg, counter, doneCh, dials,
                   registry, shutdownVars, listening, proc>>

\* mutant of DeferDelete: the deferred function leaves the entry in place
DeferDeleteKeeps(s) ==
    /\ Running
    /\ hpc[s] = "deferDelete"
    /\ hops' = [hops EXCEPT ![s] = Append(@, <<"delete", "client", 0>>)]
    /\ hpc' = [hpc EXCEPT ![s] = "deferClose"]
    /\ UNCHANGED <<authVars, sdkVars, wsVars, requestVars, conn, peerVars, out, fpc, fmsg, counter, doneCh,
                   dials, registry, shutdownVars, listening, proc>>

\* activeConnections.Delete(clientConn), first half of the deferred function
DeferDelete(s) ==
    /\ Running
    /\ hpc[s] = "deferDelete"
    /\ registry' = registry \ {s}
    /\ hops' = [hops EXCEPT ![s] = Append(@, <<"delete", "client", 0>>)]
    /\ hpc' = [hpc EXCEPT ![s] = "deferClose"]
    /\ UNCHANGED <<authVars, sdkVars, wsVars, requestVars, conn, peerVars, out, fpc, fmsg, counter, doneCh,
                   dials, shutdownVars, listening, proc>>

\* mutant of DeferClose: the handler returns with clientConn left open
DeferCloseLeavesOpen(s) ==
    /\ Running
    /\ hpc[s] = "deferClose"
    /\ hpc' = [hpc EXCEPT ![s] = "returned"]
    /\ UNCHANGED <<authVars, sdkVars, wsVars, requestVars, conn, peerVars, out, fpc, fmsg, counter, doneCh,
                   dials, hops, registry, shutdownVars, listening, proc>>

\* clientConn.Close(), second half of the deferred function; the handler returns
DeferClose(s) ==
    /\ Running
    /\ hpc[s] = "deferClose"
    /\ conn' = [conn EXCEPT ![s]["client"] = "closed"]
    /\ hops' = [hops EXCEPT ![s] = Append(@, <<"close", "client", 0>>)]
    /\ hpc' = [hpc EXCEPT ![s] = "returned"]
    /\ UNCHANGED <<authVars, sdkVars, wsVars, requestVars, peerVars, out, fpc, fmsg, counter, doneCh, dials,
                   registry, shutdownVars, listening, proc>>

\* ------------------------------------------------ proxy: forwardMessages
\* src.ReadMessage fails: the connection was closed on this side
FwdReadClosed(s, d) ==
    /\ Running
    /\ fpc[s][d] = "read"
    /\ conn[s][Src(d)] = "closed"
    /\ fpc' = [fpc EXCEPT ![s][d] = "signal"]
    /\ UNCHANGED <<authVars, sdkVars, wsVars, hpc, requestVars, conn, peerVars, out, fmsg, counter, doneCh,
                   dials, hops, registry, shutdownVars, listening, proc>>

\* src.ReadMessage returns the next message; *counter++
FwdReadMessage(s, d) ==
    /\ Running
    /\ fpc[s][d] = "read"
    /\ conn[s][Src(d)] # "closed"
    /\ inq[s][d] # <<>>
    /\ fmsg' = [fmsg EXCEPT ![s][d] = Head(inq[s][d])]
    /\ inq' = [inq EXCEPT ![s][d] = Tail(@)]
    /\ counter' = [counter EXCEPT ![s][d] = @ + 1]
    /\ fpc' = [fpc EXCEPT ![s][d] = "write"]
    /\ UNCHANGED <<authVars, sdkVars, wsVars, hpc, requestVars, conn, sent, out, doneCh, dials,
                   hops, registry, shutdownVars, listening, proc>>

\* src.ReadMessage fails after the peer's last message: the peer has closed,
\* with a close frame (gorilla's default close handler answers it with a
\* close frame of its own, when none has been written yet) or without one
FwdReadPeerClosed(s, d, closeFrame) ==
    /\ Running
    /\ fpc[s][d] = "read"
    /\ conn[s][Src(d)] # "closed"
    /\ inq[s][d] = <<>>
    /\ fpc' = [fpc EXCEPT ![s][d] = "signal"]
    /\ IF closeFrame /\ conn[s][Src(d)] = "open"
       THEN /\ conn' = [conn EXCEPT ![s][Src(d)] = "closeSent"]
            /\ out' = [out EXCEPT ![s][Src(d)] = Append(@, CloseFrame(CloseNormalClosure, ""))]
       ELSE UNCHANGED <<conn, out>>
    /\ UNCHANGED <<authVars, sdkVars, wsVars, hpc, requestVars, peerVars, fmsg, counter, doneCh, dials, hops,
                   registry, shutdownVars, listening, proc>>

\* mutant of FwdWrite: the loop reads on after a failed write
FwdWriteKeepsGoing(s, d, race, outcome) ==
    /\ Running
    /\ fpc[s][d] \in {"write", "writeRaced"}
    /\ ~race
    /\ outcome \in {"ok", "error"}
    /\ outcome = "ok" => conn[s][Dst(d)] = "open"
    /\ fmsg' = [fmsg EXCEPT ![s][d] = NoMsg]
    /\ out' = IF outcome = "ok"
              THEN [out EXCEPT ![s][Dst(d)] = Append(@, fmsg[s][d])]
              ELSE out
    /\ fpc' = [fpc EXCEPT ![s][d] = "read"]
    /\ UNCHANGED <<authVars, sdkVars, wsVars, hpc, requestVars, conn, peerVars, counter, doneCh, dials, hops,
                   registry, shutdownVars, listening, proc>>

\* what the forwarder hands to dst.WriteMessage
WrittenMessage(s, d) == fmsg[s][d]

\* dst.WriteMessage(msgType, data). outcome "ok": the frame goes out and the
\* loop reads again; "error": the write fails (connection closed or close
\* frame already written on this side, or the transport failing) and the loop ends.
\* When the write overlapped another goroutine's write of dst (raced before,
\* or racing now with the shutdown callback), the two frames go out in
\* either order, and the outcomes also include the frame going out garbled
\* and gorilla's panic, which ends the process.
FwdWrite(s, d, race, outcome) ==
    /\ Running
    /\ fpc[s][d] \in {"write", "writeRaced"}
    /\ race => ShutdownWriting(s, Dst(d))
    /\ outcome \in {"garbled", "panic"} => (race \/ fpc[s][d] = "writeRaced")
    /\ outcome = "ok" =>
          \/ conn[s][Dst(d)] = "open"
          \/ (race \/ fpc[s][d] = "writeRaced") /\ conn[s][Dst(d)] = "closeSent"
    /\ outcome = "garbled" => conn[s][Dst(d)] \in {"open", "closeSent"}
    /\ spc' = IF race THEN "writeRaced" ELSE spc
    /\ fmsg' = [fmsg EXCEPT ![s][d] = NoMsg]
    /\ out' = IF outcome = "ok"
              THEN [out EXCEPT ![s][Dst(d)] = Append(@, WrittenMessage(s, d))]
              ELSE IF outcome = "garbled"
              THEN [out EXCEPT ![s][Dst(d)] = Append(@, Garbled(WrittenMessage(s, d)))]
              ELSE out
    /\ fpc' = [fpc EXCEPT ![s][d] = IF outcome \in {"ok", "garbled"} THEN "read" ELSE "signal"]
    /\ proc' = IF outcome = "panic" THEN "crashed" ELSE proc
    /\ UNCHANGED <<authVars, sdkVars, wsVars, hpc, requestVars, conn, peerVars, counter, doneCh, dials, hops,
                   registry, cur, visited, snapshot, atSignal, sops, listening>>

\* mutant of FwdSignal: the done channel is unbuffered, so the send waits
\* for the handler to be at <-done
FwdSignalUnbuffered(s, d) ==
    /\ Running
    /\ fpc[s][d] = "signal"
    /\ hpc[s] = "waitDone"
    /\ doneCh[s] = 0
    /\ doneCh' = [doneCh EXCEPT ![s] = @ + 1]
    /\ fpc' = [fpc EXCEPT ![s][d] = "done"]
    /\ UNCHANGED <<authVars, sdkVars, wsVars, hpc, requestVars, conn, peerVars, out, fmsg, counter, dials,
                   hops, registry, shutdownVars, listening, proc>>

\* the deferred done <- struct{}{}
FwdSignal(s, d) ==
    /\ Running
    /\ fpc[s][d] = "signal"
    /\ doneCh[s] < DoneCap
    /\ doneCh' = [doneCh EXCEPT ![s] = @ + 1]
    /\ fpc' = [fpc EXCEPT ![s][d] = "done"]
    /\ UNCHANGED <<authVars, sdkVars, wsVars, hpc, requestVars, conn, peerVars, out, fmsg, counter, dials,
                   hops, registry, shutdownVars, listening, proc>>

\* ---------------------------------------------- proxy: gracefulShutdown
\* sig := <-quit
Signal ==
    /\ Running
    /\ spc = "waiting"
    /\ spc' = "count"
    /\ atSignal' = registry
    /\ UNCHANGED <<authVars, sdkVars, wsVars, hpc, requestVars, conn, peerVars, out, fpc, fmsg, counter,
                   doneCh, dials, hops, registry, cur, visited, snapshot, sops, listening,
                   proc>>

\* the first Range (connCount, only logged); the second Range begins
CountRange ==
    /\ Running
    /\ spc = "count"
    /\ spc' = "range"
    /\ snapshot' = registry
    /\ UNCHANGED <<authVars, sdkVars, wsVars, hpc, requestVars, conn, peerVars, out, fpc, fmsg, counter,
                   doneCh, dials, hops, registry, cur, visited, atSignal, sops, listening,
                   proc>>

\* The second Range calls back on key c. sync.Map.Range visits no key twice
\* and every key present during the whole call; a key stored or deleted
\* while it runs may or may not be visited.
RangeVisit(c) ==
    /\ Running
    /\ spc = "range"
    /\ c \in (registry \cup snapshot) \ visited
    /\ cur' = c
    /\ visited' = visited \cup {c}
    /\ spc' = "write"
    /\ UNCHANGED <<authVars, sdkVars, wsVars, hpc, requestVars, conn, peerVars, out, fpc, fmsg, counter,
                   doneCh, dials, hops, registry, snapshot, atSignal, sops, listening, proc>>

\* mutant of ShutdownWrite: a failed write of the close frame is fatal
ShutdownWriteFatal(race, panics) ==
    /\ Running
    /\ spc \in {"write", "writeRaced"}
    /\ ~race /\ ~panics
    /\ sops' = Append(sops, <<"write", cur>>)
    /\ IF conn[cur]["client"] = "open"
       THEN /\ conn' = [conn EXCEPT ![cur]["client"] = "closeSent"]
            /\ out' = [out EXCEPT ![cur]["client"] =
                          Append(@, CloseFrame(CloseGoingAway, "Server shutting down"))]
            /\ UNCHANGED proc
       ELSE /\ proc' = "crashed"
            /\ UNCHANGED <<conn, out>>
    /\ spc' = "close"
    /\ UNCHANGED <<authVars, sdkVars, wsVars, hpc, requestVars, peerVars, fpc, fmsg, counter, doneCh, dials,
                   hops, registry, cur, visited, snapshot, atSignal, listening>>

\* conn.WriteMessage(CloseMessage, CloseGoingAway) in the callback; racing
\* with a forwarder's write of the same connection it may panic, which ends
\* the process
ShutdownWrite(race, panics) ==
    /\ Running
    /\ spc \in {"write", "writeRaced"}
    /\ race => fpc[cur]["u2c"] \in {"write", "writeRaced"}
    /\ panics => (race \/ spc = "writeRaced")
    /\ fpc' = IF race /\ fpc[cur]["u2c"] = "write"
              THEN [fpc EXCEPT ![cur]["u2c"] = "writeRaced"] ELSE fpc
    /\ sops' = Append(sops, <<"write", cur>>)
    /\ IF ~panics /\ conn[cur]["client"] = "open"
       THEN /\ conn' = [conn EXCEPT ![cur]["client"] = "closeSent"]
            /\ out' = [out EXCEPT ![cur]["client"] =
                          Append(@, CloseFrame(CloseGoingAway, "Server shutting down"))]
       ELSE UNCHANGED <<conn, out>>
    /\ spc' = "close"
    /\ proc' = IF panics THEN "crashed" ELSE proc
    /\ UNCHANGED <<authVars, sdkVars, wsVars, hpc, requestVars, peerVars, fmsg, counter, doneCh, dials, hops,
                   registry, cur, visited, snapshot, atSignal, listening>>

\* conn.Close() in the callback
ShutdownClose ==
    /\ Running
    /\ spc = "close"
    /\ conn' = [conn EXCEPT ![cur]["client"] = "closed"]
    /\ sops' = Append(sops, <<"close", cur>>)
    /\ spc' = "range"
    /\ cur' = ""
    /\ UNCHANGED <<authVars, sdkVars, wsVars, hpc, requestVars, peerVars, out, fpc, fmsg, counter, doneCh,
                   dials, hops, registry, visited, snapshot, atSignal, listening, proc>>

\* mutant of RangeEnd: the Range returns before it has visited every key
RangeEndEarly ==
    /\ Running
    /\ spc = "range"
    /\ spc' = "shutdownServer"
    /\ UNCHANGED <<authVars, sdkVars, wsVars, hpc, requestVars, conn, peerVars, out, fpc, fmsg, counter,
                   doneCh, dials, hops, registry, cur, visited, snapshot, atSignal, sops,
                   listening, proc>>

\* the second Range returns
RangeEnd ==
    /\ Running
    /\ spc = "range"
    /\ (snapshot \cap registry) \subseteq visited
    /\ spc' = "shutdownServer"
    /\ UNCHANGED <<authVars, sdkVars, wsVars, hpc, requestVars, conn, peerVars, out, fpc, fmsg, counter,
                   doneCh, dials, hops, registry, cur, visited, snapshot, atSignal, sops,
                   listening, proc>>

\* server.Shutdown(ctx): the listener is closed (ListenAndServe returns
\* http.ErrServerClosed in main); hijacked connections are neither closed
\* nor waited for
ServerShutdown ==
    /\ Running
    /\ spc = "shutdownServer"
    /\ listening' = FALSE
    /\ sops' = Append(sops, <<"shutdown", "">>)
    /\ spc' = "shuttingDown"
    /\ UNCHANGED <<authVars, sdkVars, wsVars, hpc, requestVars, conn, peerVars, out, fpc, fmsg, counter,
                   doneCh, dials, hops, registry, cur, visited, snapshot, atSignal, proc>>

\* server.Shutdown returns; "Shutdown complete"
ShutdownComplete ==
    /\ Running
    /\ spc = "shuttingDown"
    /\ spc' = "done"
    /\ UNCHANGED <<authVars, sdkVars, wsVars, hpc, requestVars, conn, peerVars, out, fpc, fmsg, counter,
                   doneCh, dials, hops, registry, cur, visited, snapshot, atSignal, sops,
                   listening, proc>>

\* main returns once ListenAndServe has returned: the process ends
MainExit ==
    /\ Running
    /\ ~listening
    /\ proc' = "exited"
    /\ UNCHANGED <<authVars, sdkVars, wsVars, hpc, requestVars, conn, peerVars, out, fpc, fmsg, counter,
                   doneCh, dials, hops, registry, shutdownVars, listening>>

\* ------------------------------------------------ proxy: specification
Init ==
    /\ now = SessionNow
    /\ issued = {}
    /\ call = NoCall
    /\ ProxyInit
    /\ SdkTestOff
    /\ WsOff

\* the steps of one handleLiveTranscription call whose peers send one of `streams`
HandlerStep(s, streams) ==
    \/ \E protocols \in SessionOffers, upgradeOk \in BOOLEAN : HandleRequest(s, protocols, upgradeOk)
    \/ Register(s)
    \/ \E ok \in BOOLEAN, st \in streams : Dial(s, ok, st)
    \/ \E race, panics \in BOOLEAN : DialFailedClose(s, race, panics)
    \/ WaitDone(s)
    \/ \E race, panics \in BOOLEAN : CloseClient(s, race, panics)
    \/ \E race, panics \in BOOLEAN : CloseUpstream(s, race, panics)
    \/ DeferCloseUpstream(s)
    \/ DeferDelete(s)
    \/ DeferClose(s)

\* the steps of a forwardMessages goroutine that end it; closeFrames says
\* whether the peers may close with a close frame (TRUE) or only without
ForwarderEnd(s, d, closeFrames) ==
    \/ FwdReadClosed(s, d)
    \/ \E closeFrame \in {FALSE, closeFrames} : FwdReadPeerClosed(s, d, closeFrame)
    \/ FwdSignal(s, d)

\* the steps of a forwardMessages goroutine that relay a message
ForwarderRelay(s, d) ==
    \/ FwdReadMessage(s, d)
    \/ \E race \in BOOLEAN, outcome \in {"ok", "error", "garbled", "panic"} :
          FwdWrite(s, d, race, outcome)

ShutdownStep ==
    \/ Signal
    \/ CountRange
    \/ \E c \in Sessions : RangeVisit(c)
    \/ \E race, panics \in BOOLEAN : ShutdownWrite(race, panics)
    \/ ShutdownClose
    \/ RangeEnd
    \/ ServerShutdown
    \/ ShutdownComplete
    \/ MainExit

\* One session with its message traffic, and the shutdown task.
RelaySessions == {"s1"}

Next ==
    \/ \E s \in RelaySessions : HandlerStep(s, Streams)
    \/ \E s \in RelaySessions, d \in Dirs : ForwarderEnd(s, d, TRUE)
    \/ \E s \in RelaySessions, d \in Dirs : ForwarderRelay(s, d)
    \/ ShutdownStep

Spec == Init /\ [][Next]_vars

\* The same with the Go scheduler's guarantee that a goroutine that can run
\* does run: each forwardMessages goroutine takes its next step.
ForwarderStep(s, d) == ForwarderEnd(s, d, TRUE) \/ ForwarderRelay(s, d)

SpecFair ==
    /\ Spec
    /\ \A s \in RelaySessions, d \in Dirs : WF_vars(ForwarderStep(s, d))

\* All sessions concurrently, their peers sending no data message and
\* closing without a close frame, and the shutdown task.
NoStreams == {[d \in Dirs |-> <<>>]}

SessionsNext ==
    \/ \E s \in Sessions : HandlerStep(s, NoStreams)
    \/ \E s \in Sessions, d \in Dirs : ForwarderEnd(s, d, FALSE)
    \/ ShutdownStep

SpecSessions == Init /\ [][SessionsNext]_vars

\* ------------------------------------------------- proxy: buildDeepgramURL
\* A raw query is the sequence of its "name=value" pairs as written in the
\* URL, the value in its escaped form; url.Values maps each name to the
\* sequence of its unescaped values.
Recognized ==
    {"model", "language", "smart_format", "punctuate", "diarize", "filler_words",
     "encoding", "sample_rate", "channels"}

\* the params map: names and defaults
params ==
    << <<"model", "nova-3">>, <<"language", "en">>, <<"smart_format", "true">>,
       <<"punctuate", "true">>, <<"diarize", "false">>, <<"filler_words", "false">>,
       <<"encoding", "linear16">>, <<"sample_rate", "16000">>, <<"channels", "1">> >>

\* every name, in the order of sort.Strings, which Values.Encode follows
SortedNames ==
    <<"channels", "diarize", "encoding", "filler_words", "keywords", "language", "model",
      "punctuate", "sample_rate", "smart_format", "tag">>

Names == {SortedNames[i] : i \in 1..Len(SortedNames)}

\* url.QueryUnescape fails on a malformed escape; ParseQuery skips the pair
Malformed(e) == e = "%zz"
QueryUnescape(e) == IF e \in {"en+US", "en%20US"} THEN "en US" ELSE e
QueryEscape(v) == IF v = "en US" THEN "en+US" ELSE v

Pair(n, e) == [name |-> n, value |-> e]

\* url.ParseQuery, its error dropped as URL.Query does
RECURSIVE ValuesOf(_, _)
ValuesOf(raw, n) ==
    IF raw = <<>> THEN <<>>
    ELSE IF Head(raw).name = n /\ ~Malformed(Head(raw).value)
         THEN <<QueryUnescape(Head(raw).value)>> \o ValuesOf(Tail(raw), n)
         ELSE ValuesOf(Tail(raw), n)

Query(raw) == [n \in Names |-> ValuesOf(raw, n)]

\* Values.Get: the first value of the name, "" when there is none
Get(values, n) == IF values[n] = <<>> THEN "" ELSE values[n][1]

\* mutant of Set: Values.Add, which appends
Add(values, n, v) == [values EXCEPT ![n] = Append(@, v)]

\* Values.Set
Set(values, n, v) == [values EXCEPT ![n] = <<v>>]

\* Values.Encode: names sorted, the values of a name in their order
RECURSIVE EncodeValues(_, _)
EncodeValues(n, vs) ==
    IF vs = <<>> THEN <<>>
    ELSE <<Pair(n, QueryEscape(Head(vs)))>> \o EncodeValues(n, Tail(vs))

RECURSIVE EncodeFrom(_, _)
EncodeFrom(values, i) ==
    IF i > Len(SortedNames) THEN <<>>
    ELSE EncodeValues(SortedNames[i], values[SortedNames[i]]) \o EncodeFrom(values, i + 1)

Encode(values) == EncodeFrom(values, 1)

\* mutant of ParamValue: the client's value is passed on even when empty
ParamValuePassed(requestQuery, name, defaultVal) == Get(Query(requestQuery), name)

\* val := r.URL.Query().Get(name); if val == "" { val = defaultVal }
ParamValue(requestQuery, name, defaultVal) ==
    LET val == Get(Query(requestQuery), name) IN
    IF val = "" THEN defaultVal ELSE val

\* the loop over params; the sets are to distinct names, so the order in
\* which range visits the map does not show in the result
RECURSIVE SetParams(_, _, _)
SetParams(q, requestQuery, i) ==
    IF i > Len(params) THEN q
    ELSE SetParams(Set(q, params[i][1], ParamValue(requestQuery, params[i][1], params[i][2])),
                   requestQuery, i + 1)

buildDeepgramURL(baseURL, requestQuery) ==
    [base |-> baseURL.base,
     rawQuery |-> Encode(SetParams(Query(baseURL.rawQuery), requestQuery, 1))]

\* ------------------------------------- buildDeepgramURL: inputs and calls
DeepgramSttURL == [base |-> "wss://api.deepgram.com/v1/listen", rawQuery |-> <<>>]
NoURL == [base |-> "", rawQuery |-> <<>>]

\* escaped values a client writes: empty, plain, needing unescaping, malformed
EscapedValues == {"", "nova-2", "en%20US", "%zz"}

RequestQueries == SeqsUpTo({Pair(n, e) : n \in Names, e \in EscapedValues}, MaxQuery)

\* base URLs: the configured one, and ones that already carry a query
BaseURLs ==
    { DeepgramSttURL,
      [base |-> "wss://api.deepgram.com/v1/listen",
       rawQuery |-> <<Pair("tag", "en%20US"), Pair("model", "nova-2"), Pair("model", "en+US")>>],
      [base |-> "wss://api.deepgram.com/v1/listen",
       rawQuery |-> <<Pair("tag", "nova-2"), Pair("keywords", "%zz"), Pair("tag", "en+US")>>] }

UrlCalls ==
    { [fn |-> "buildDeepgramURL", baseURL |-> b, query |-> rq, at |-> NoClaim,
       ret |-> NoURL, again |-> NoURL] : b \in BaseURLs, rq \in RequestQueries }

CallBuildDeepgramURL ==
    /\ call.fn = "buildDeepgramURL"
    /\ call.at = NoClaim
    /\ call' = [call EXCEPT !.at = 0, !.ret = buildDeepgramURL(call.baseURL, call.query)]
    /\ UNCHANGED <<now, issued, proxyVars, sdkVars, wsVars>>

\* buildDeepgramURL applied to its own result, with the same request
CallBuildDeepgramURLAgain ==
    /\ call.fn = "buildDeepgramURL"
    /\ call.at = 0
    /\ call' = [call EXCEPT !.at = 1, !.again = buildDeepgramURL(call.ret, call.query)]
    /\ UNCHANGED <<now, issued, proxyVars, sdkVars, wsVars>>

UrlInit ==
    /\ now = 0
    /\ issued = {}
    /\ call \in UrlCalls
    /\ ProxyInit
    /\ SdkTestOff
    /\ WsOff

UrlNext == CallBuildDeepgramURL \/ CallBuildDeepgramURLAgain

SpecUrl == UrlInit /\ [][UrlNext]_vars

\* ------------------------------------- SDK test: deepgram_sdk_test.go
\* strings.TrimSpace on the transcripts explored
RawTranscripts == {"", " ", "hello", " world "}
TrimSpace(t) == IF t = " " THEN "" ELSE IF t = " world " THEN "world" ELSE t

\* what the upstream can deliver: no alternative, or one with a transcript
Results ==
    {NoResult} \cup
    [alternatives : {1}, transcript : RawTranscripts, isFinal : BOOLEAN, speechFinal : BOOLEAN]

ResultStreams == SeqsUpTo(Results, MaxResults)

\* strings.Builder.Reset
Reset(b) == <<>>

TestRunning == tproc = "running"

\* the test up to go dgClient.Stream: NewWithDefaults, httpClient.Get and
\* Connect, any of which failing ends the test with t.Fatal
SdkConnect(ok) ==
    /\ TestRunning
    /\ tpc = "setup"
    /\ tpc' = IF ok THEN "waiting" ELSE "fatal"
    /\ UNCHANGED <<authVars, proxyVars, wsVars, cpc, results, sb, cmsg, signals, stopped, tproc>>

\* MyCallback.Message(mr), called by the client for the next result. The
\* callback value is built without its t field, so c.t.Error is a call on a
\* nil *testing.T: it panics in the client's goroutine.
Message ==
    /\ TestRunning
    /\ tpc \in {"waiting", "received"}
    /\ cpc = "idle"
    /\ results # <<>>
    /\ results' = Tail(results)
    /\ LET mr == Head(results)
           sentence == TrimSpace(mr.transcript) IN
       IF mr.alternatives = 0 \/ sentence = ""
       THEN /\ cpc' = "panicked"
            /\ tproc' = "panicked"
            /\ UNCHANGED <<sb, cmsg>>
       ELSE IF mr.isFinal
            THEN LET written == sb \o <<sentence, " ">> IN
                 IF mr.speechFinal
                 THEN /\ sb' = Reset(written)
                      /\ cpc' = "sending"
                      /\ cmsg' = mr
                      /\ UNCHANGED tproc
                 ELSE /\ sb' = written
                      /\ UNCHANGED <<cpc, cmsg, tproc>>
            ELSE UNCHANGED <<sb, cpc, cmsg, tproc>>
    /\ UNCHANGED <<authVars, proxyVars, wsVars, tpc, signals, stopped>>

\* MyCallback.UtteranceEnd: the builder is reset when it holds something
UtteranceEnd ==
    /\ TestRunning
    /\ tpc \in {"waiting", "received"}
    /\ cpc = "idle"
    /\ sb' = IF sb # <<>> THEN Reset(sb) ELSE sb
    /\ UNCHANGED <<authVars, proxyVars, wsVars, tpc, cpc, results, cmsg, signals, stopped, tproc>>

\* c.transcriptReceived <- struct{}{} meets case <-transcriptReceived
ReceiveSignal ==
    /\ TestRunning
    /\ tpc = "waiting"
    /\ cpc = "sending"
    /\ tpc' = "received"
    /\ cpc' = "idle"
    /\ signals' = Append(signals, cmsg)
    /\ cmsg' = NoResult
    /\ UNCHANGED <<authVars, proxyVars, wsVars, results, sb, stopped, tproc>>

\* case <-time.After(30 * time.Second): t.Fatal
Timeout ==
    /\ TestRunning
    /\ tpc = "waiting"
    /\ tpc' = "timedOut"
    /\ UNCHANGED <<authVars, proxyVars, wsVars, cpc, results, sb, cmsg, signals, stopped, tproc>>

\* dgClient.Stop(); the test returns
Stop ==
    /\ TestRunning
    /\ tpc = "received"
    /\ stopped' = TRUE
    /\ tpc' = "finished"
    /\ UNCHANGED <<authVars, proxyVars, wsVars, cpc, results, sb, cmsg, signals, tproc>>

SdkTestInit ==
    /\ now = 0
    /\ issued = {}
    /\ call = NoCall
    /\ ProxyInit
    /\ WsOff
    /\ tpc = "setup"
    /\ cpc = "idle"
    /\ results \in ResultStreams
    /\ sb = <<>>
    /\ cmsg = NoResult
    /\ signals = <<>>
    /\ stopped = FALSE
    /\ tproc = "running"

SdkTestNext ==
    \/ \E ok \in BOOLEAN : SdkConnect(ok)
    \/ Message
    \/ UtteranceEnd
    \/ ReceiveSignal
    \/ Timeout
    \/ Stop

SpecSdkTest == SdkTestInit /\ [][SdkTestNext]_vars

\* ------------------------------- SDK variants: main.go and part_000
Variants == {"chan", "socket"}

\* the text payloads a client sends
OpenMicrophone == "{type:openMicrophone}"
CloseMicrophone == "{type:closeMicrophone}"
EmptyObject == "{}"
NotJSON == "not json"
\* an object whose "type" key comes twice, the second time with a number
CloseThenNumber == "{type:closeMicrophone,type:1}"

TextPayloads == {OpenMicrophone, CloseMicrophone, EmptyObject, NotJSON, CloseThenNumber}

\* json.Unmarshal(p, &clientMsg) on a clientMsg whose Type is prev: input
\* that is not JSON is refused before anything is stored; a key that is
\* absent leaves the field as it was; a value of the wrong kind is reported
\* once the whole object has been decoded, the fields before it being stored.
Unmarshal(p, prev) ==
    IF p = OpenMicrophone THEN [err |-> FALSE, type |-> "openMicrophone"]
    ELSE IF p = CloseMicrophone THEN [err |-> FALSE, type |-> "closeMicrophone"]
    ELSE IF p = EmptyObject THEN [err |-> FALSE, type |-> prev]
    ELSE IF p = CloseThenNumber THEN [err |-> TRUE, type |-> "closeMicrophone"]
    ELSE [err |-> TRUE, type |-> prev]

ClientMsgs ==
    [type : {BinaryMessage}, data : {"a1", "a2"}] \cup [type : {TextMessage}, data : TextPayloads]

ClientStreams == SeqsUpTo(ClientMsgs, MaxClientMsgs)

\* the results Deepgram delivers to the callback of a handler
WsResults ==
    {NoResult} \cup
    [alternatives : {1}, transcript : {" ", "hello", " world "}, isFinal : {TRUE},
     speechFinal : {TRUE}]

WsResultStreams == SeqsUpTo(WsResults, MaxResults)

WsRunning == wproc = "running"

\* conn.WriteJSON(response) in main.go, c.socket.WriteJSON(sentence) in part_000
ResponseFrame(mr) == [kind |-> "response", text |-> mr.transcript]
SentenceFrame(sentence) == [kind |-> "sentence", text |-> sentence]

\* handleWebSocket up to the loop: upgrader.Upgrade, client.New, Connect.
\* A failed upgrade or a failed client.New returns; a failed Connect is
\* os.Exit(1).
Setup(outcome) ==
    /\ WsRunning
    /\ wpc = "idle"
    /\ wconn' = IF outcome = "upgradeFailed" THEN wconn ELSE "open"
    /\ dg' = IF outcome = "connected" THEN "connected" ELSE dg
    /\ wpc' = IF outcome = "connected" THEN "loop" ELSE "returned"
    /\ wproc' = IF outcome = "connectFailed" THEN "exited" ELSE wproc
    /\ UNCHANGED <<authVars, proxyVars, sdkVars, variant, clientMsg, csent, cin, cclosed,
                   upAudio, dres, kpc, kmsg, wout>>

\* case response := <-callback.SendChan (main.go): chosen when the callback
\* is waiting to send; conn.WriteJSON(response), an error of which returns
SelectReceive(writeOk) ==
    /\ WsRunning
    /\ variant = "chan"
    /\ wpc = "loop"
    /\ kpc = "sending"
    /\ kpc' = "idle"
    /\ kmsg' = NoResult
    /\ IF writeOk /\ wconn = "open"
       THEN /\ wout' = Append(wout, ResponseFrame(kmsg))
            /\ UNCHANGED wpc
       ELSE /\ wpc' = "returned"
            /\ UNCHANGED wout
    /\ UNCHANGED <<authVars, proxyVars, sdkVars, variant, wconn, dg, clientMsg, csent, cin,
                   cclosed, upAudio, dres, wproc>>

\* the default branch (main.go), or the top of the loop (part_000): the
\* handler enters conn.ReadMessage
SelectDefault ==
    /\ WsRunning
    /\ wpc = "loop"
    /\ ~(variant = "chan" /\ kpc = "sending")
    /\ wpc' = "reading"
    /\ UNCHANGED <<authVars, proxyVars, sdkVars, variant, wconn, dg, clientMsg, csent, cin,
                   cclosed, upAudio, dres, kpc, kmsg, wout, wproc>>

\* conn.ReadMessage returns the client's next message. Binary: dgClient.Write(p),
\* whose error is only logged. Text: json.Unmarshal into clientMsg; an error
\* continues the loop; a Type of "closeMicrophone" is dgClient.Stop() and return.
ReadMessage(writeOk) ==
    /\ WsRunning
    /\ wpc = "reading"
    /\ cin # <<>>
    /\ cin' = Tail(cin)
    /\ LET m == Head(cin) IN
       IF m.type = BinaryMessage
       THEN /\ upAudio' = IF writeOk /\ dg = "connected" THEN Append(upAudio, m.data) ELSE upAudio
            /\ wpc' = "loop"
            /\ UNCHANGED <<clientMsg, dg>>
       ELSE LET u == Unmarshal(m.data, clientMsg) IN
            /\ clientMsg' = u.type
            /\ IF ~u.err /\ u.type = "closeMicrophone"
               THEN dg' = "stopped" /\ wpc' = "returned"
               ELSE wpc' = "loop" /\ UNCHANGED dg
            /\ UNCHANGED upAudio
    /\ UNCHANGED <<authVars, proxyVars, sdkVars, variant, wconn, csent, cclosed, dres,
                   kpc, kmsg, wout, wproc>>

\* conn.ReadMessage fails, the client having closed (going away or not): return
ReadError ==
    /\ WsRunning
    /\ wpc = "reading"
    /\ cin = <<>>
    /\ cclosed # "no"
    /\ wpc' = "returned"
    /\ UNCHANGED <<authVars, proxyVars, sdkVars, variant, wconn, dg, clientMsg, csent, cin,
                   cclosed, upAudio, dres, kpc, kmsg, wout, wproc>>

\* the client closes its end, with a going-away close frame or without
ClientCloses(kind) ==
    /\ WsRunning
    /\ wpc \in {"loop", "reading"}
    /\ cclosed = "no"
    /\ cclosed' = kind
    /\ UNCHANGED <<authVars, proxyVars, sdkVars, variant, wpc, wconn, dg, clientMsg, csent, cin,
                   upAudio, dres, kpc, kmsg, wout, wproc>>

\* MyCallback.Message(mr), called by the SDK for the next result.
\* mr.Channel.Alternatives[0] is evaluated before the length is looked at:
\* with no alternative it is an index out of range, a panic in the SDK's
\* goroutine, which the SDK recovers or which ends the process. A blank
\* sentence returns nil. Otherwise main.go sends mr on the unbuffered
\* SendChan and part_000 writes the sentence to the socket, the error dropped.
CallbackMessage(recovered, writeOk) ==
    /\ WsRunning
    /\ dg = "connected"
    /\ kpc = "idle"
    /\ dres # <<>>
    /\ dres' = Tail(dres)
    /\ LET mr == Head(dres)
           sentence == TrimSpace(mr.transcript) IN
       IF mr.alternatives = 0
       THEN /\ kpc' = "panicked"
            /\ wproc' = IF recovered THEN wproc ELSE "crashed"
            /\ UNCHANGED <<kmsg, wout>>
       ELSE IF sentence = ""
       THEN UNCHANGED <<kpc, kmsg, wout, wproc>>
       ELSE IF variant = "chan"
       THEN /\ kpc' = "sending"
            /\ kmsg' = mr
            /\ UNCHANGED <<wout, wproc>>
       ELSE /\ wout' = IF writeOk /\ wconn = "open"
                       THEN Append(wout, SentenceFrame(sentence)) ELSE wout
            /\ UNCHANGED <<kpc, kmsg, wproc>>
    /\ UNCHANGED <<authVars, proxyVars, sdkVars, variant, wpc, wconn, dg, clientMsg, csent, cin,
                   cclosed, upAudio>>

WsInit ==
    /\ now = 0
    /\ issued = {}
    /\ call = NoCall
    /\ ProxyInit
    /\ SdkTestOff
    /\ variant \in Variants
    /\ wpc = "idle"
    /\ wconn = "none"
    /\ dg = "none"
    /\ clientMsg = ""
    /\ csent \in ClientStreams
    /\ cin = csent
    /\ cclosed = "no"
    /\ upAudio = <<>>
    /\ dres \in WsResultStreams
    /\ kpc = "idle"
    /\ kmsg = NoResult
    /\ wout = <<>>
    /\ wproc = "running"

WsNext ==
    \/ \E outcome \in {"upgradeFailed", "newFailed", "connectFailed", "connected"} : Setup(outcome)
    \/ \E writeOk \in BOOLEAN : SelectReceive(writeOk)
    \/ SelectDefault
    \/ \E writeOk \in BOOLEAN : ReadMessage(writeOk)
    \/ ReadError
    \/ \E kind \in {"goingAway", "abnormal"} : ClientCloses(kind)
    \/ \E recovered, writeOk \in BOOLEAN : CallbackMessage(recovered, writeOk)

SpecWs == WsInit /\ [][WsNext]_vars

\* ------------------------------------------------------ auth: the actions
Tick ==
    /\ now < MaxTime
    /\ now' = now + 1
    /\ UNCHANGED <<issued, call, proxyVars, sdkVars, wsVars>>

\* handleSession: GET /api/session issues a token with the process secret
handleSession(d) ==
    /\ Cardinality(issued) < MaxIssued
    /\ now + d <= MaxTime
    /\ issued' = issued \cup {issueToken(SessionSecret, d)}
    /\ now' = now + d
    /\ UNCHANGED <<call, proxyVars, sdkVars, wsVars>>

CallValidateToken ==
    /\ call.fn = "validateToken"
    /\ call.at = NoClaim
    /\ call' = [call EXCEPT !.at = now, !.err = validateToken(call.tokenStr, call.secret)]
    /\ UNCHANGED <<now, issued, proxyVars, sdkVars, wsVars>>

CallValidateWsToken ==
    /\ call.fn = "validateWsToken"
    /\ call.at = NoClaim
    /\ call' = [call EXCEPT !.at = now, !.ret = validateWsToken(call.protocols, call.secret)]
    /\ UNCHANGED <<now, issued, proxyVars, sdkVars, wsVars>>

AuthInit ==
    /\ now = 0
    /\ issued = {}
    /\ call \in PendingCalls
    /\ ProxyInit
    /\ SdkTestOff
    /\ WsOff

AuthNext ==
    \/ Tick
    \/ \E d \in 0..MaxIssueDelay : handleSession(d)
    \/ CallValidateToken
    \/ CallValidateWsToken

SpecAuth == AuthInit /\ [][AuthNext]_vars

\* ================================================================= claims
\* ------------------------------------------------------------------- C1

\* the offered list has an entry "access_token.<token>" whose token validates
HasValidEntry(protocols) ==
    \E i \in 1..Len(protocols) :
        /\ HasPrefix(protocols[i], AccessPrefix)
        /\ validateToken(TrimPrefix(protocols[i], AccessPrefix), SessionSecret) = "nil"

Requested(s) == hpc[s] # "idle"

\* the session got past the upgrade
Upgraded(s) == hpc[s] \notin {"idle", "unauthorized", "upgradeFailed"}

\* C1: a request whose offered list has no entry with a validating token is
\* answered 401 and never upgrades, registers or dials; every session past
\* the upgrade offered a list with such an entry.
C1_AdmissionControl ==
    \A s \in Sessions :
        /\ (Requested(s) /\ ~HasValidEntry(offer[s])) =>
              /\ hpc[s] = "unauthorized"
              /\ conn[s]["client"] = "none" /\ conn[s]["upstream"] = "none"
              /\ s \notin registry
              /\ dials[s] = 0
              /\ proto[s] = EmptyString
        /\ Upgraded(s) => (HasValidEntry(offer[s]) /\ proto[s] # EmptyString)

\* a request carrying only a forged token was answered 401
C1_Witness ==
    \E s \in Sessions :
        /\ hpc[s] = "unauthorized"
        /\ offer[s] # <<>>
        /\ HasPrefix(offer[s][1], AccessPrefix)

\* ---------------------------------------------------------------- C2..C5

CallDone(fn) == call.fn = fn /\ call.at # NoClaim

\* element i of the offered list has the prefix "access_token." and the rest
\* of it validated against the secret when the call was made
OfferedEntryValid(i) ==
    LET p == call.protocols[i] IN
    /\ Len(p) >= Len(AccessPrefix)
    /\ \A k \in 1..Len(AccessPrefix) : p[k] = AccessPrefix[k]
    /\ validateTokenAt(SubSeq(p, Len(AccessPrefix) + 1, Len(p)), call.secret, call.at) = "nil"

OfferedValid == {i \in 1..Len(call.protocols) : OfferedEntryValid(i)}

\* C2: validateWsToken returns the first offered entry, in list order, that has
\* the prefix "access_token." and a validating token, as the full unmodified
\* string; it returns the empty string exactly when no entry is like that.
C2_FirstValidProtocol ==
    CallDone("validateWsToken") =>
        IF OfferedValid = {}
        THEN call.ret = EmptyString
        ELSE /\ call.ret # EmptyString
             /\ \E i \in OfferedValid :
                   /\ \A j \in OfferedValid : i <= j
                   /\ call.ret = call.protocols[i]

\* a list with an invalid entry first and two different valid entries after it
C2_Witness ==
    /\ CallDone("validateWsToken")
    /\ Cardinality(OfferedValid) >= 2
    /\ 1 \notin OfferedValid
    /\ \E i, j \in OfferedValid : call.protocols[i] # call.protocols[j]
    /\ \E i \in 1..Len(call.protocols) :
          i \notin OfferedValid /\ HasPrefix(call.protocols[i], AccessPrefix)

CalledToken == call.tokenStr[1].jwt

\* C3 as stated: a token is accepted if and only if its signature matches the
\* secret and the current time lies in [issued_at, expires_at).
C3_AcceptedIffInWindow ==
    (CallDone("validateToken") /\ IsJWT(call.tokenStr)) =>
        ( call.err = "nil" <=>
            /\ CalledToken.alg \in HMACAlgs
            /\ CalledToken.sig = call.secret
            /\ CalledToken.iat # NoClaim
            /\ CalledToken.exp # NoClaim
            /\ DateTicks(CalledToken.iat) <= call.at
            /\ call.at < DateTicks(CalledToken.exp) )

\* C3 amended: a token is accepted if and only if it is signed with an HMAC
\* method under the secret, the current time is before expires_at when the
\* token carries an expiry, and not before its not-before time when it
\* carries one; issued_at is not looked at.
C3_AcceptedIffSignedAndNotExpired ==
    CallDone("validateToken") =>
        ( call.err = "nil" <=>
            /\ IsJWT(call.tokenStr)
            /\ CalledToken.alg \in HMACAlgs
            /\ CalledToken.sig = call.secret
            /\ (CalledToken.exp # NoClaim => call.at < DateTicks(CalledToken.exp))
            /\ (CalledToken.nbf # NoClaim => call.at >= DateTicks(CalledToken.nbf)) )

\* a correctly signed token issued in the future and without expiry is accepted
C3_Witness ==
    /\ CallDone("validateToken")
    /\ IsJWT(call.tokenStr)
    /\ CalledToken.sig = call.secret
    /\ CalledToken.iat # NoClaim
    /\ DateTicks(CalledToken.iat) > call.at
    /\ CalledToken.exp = NoClaim
    /\ call.err = "nil"

\* C4: every token issued with the process secret validates from its issuance
\* up to (not including) issued_at + 1 hour, and fails once its expiry is
\* reached.
C4_IssueValidateRoundTrip ==
    \A ts \in issued :
        /\ now < DateTicks(ts[1].jwt.iat) + jwtExpiry => validateToken(ts, SessionSecret) = "nil"
        /\ now >= DateTicks(ts[1].jwt.exp) => validateToken(ts, SessionSecret) # "nil"

\* an issued token whose two clock reads straddle a second, seen after expiry
C4_Witness ==
    \E ts \in issued :
        /\ ts[1].jwt.exp = ts[1].jwt.iat + HourSeconds + 1
        /\ now >= DateTicks(ts[1].jwt.exp)
        /\ validateToken(ts, SessionSecret) = "ErrTokenExpired"

\* C5: a token signed with another secret than the validator's is rejected at
\* every time, and no offered list is matched on such a token.
C5_ForeignSignatureRejected ==
    /\ (CallDone("validateToken") /\ IsJWT(call.tokenStr) /\ CalledToken.sig # call.secret)
          => call.err # "nil"
    /\ (CallDone("validateWsToken") /\ call.ret # EmptyString)
          => call.ret[Len(call.ret)].jwt.sig = call.secret

\* a foreign-signed HMAC token inside its validity window is rejected
C5_Witness ==
    /\ CallDone("validateToken")
    /\ IsJWT(call.tokenStr)
    /\ CalledToken.sig # call.secret
    /\ CalledToken.alg \in HMACAlgs
    /\ CalledToken.iat # NoClaim /\ CalledToken.exp # NoClaim
    /\ DateTicks(CalledToken.iat) <= call.at /\ call.at < DateTicks(CalledToken.exp)
    /\ call.err = "ErrTokenSignatureInvalid"

\* ---------------------------------------------------------------- C6..C10

IsPrefixOf(a, b) == Len(a) <= Len(b) /\ SubSeq(b, 1, Len(a)) = a

\* the data frames among the frames written to a peer
RECURSIVE DataFrames(_)
DataFrames(frames) ==
    IF frames = <<>> THEN <<>>
    ELSE IF Head(frames).type = CloseMessage THEN DataFrames(Tail(frames))
    ELSE <<Head(frames)>> \o DataFrames(Tail(frames))

\* the messages forwardMessages has read from its source so far
ReadSoFar(s, d) == SubSeq(sent[s][d], 1, counter[s][d])

\* C6: in each direction the messages written to the destination are at
\* every moment a prefix of the messages read from the source, frame type
\* and payload unchanged.
C6_RelayFidelity ==
    \A s \in Sessions, d \in Dirs :
        IsPrefixOf(DataFrames(out[s][Dst(d)]), ReadSoFar(s, d))

\* the handler got past the dial with an upstream connection / without one
Relayed(s) == conn[s]["upstream"] # "none"
DialFailed(s) == dials[s] > 0 /\ conn[s]["upstream"] = "none" /\ hpc[s] # "registered"

SessionEndOps ==
    << <<"write", "client", CloseNormalClosure>>, <<"write", "upstream", CloseNormalClosure>>,
       <<"close", "upstream", 0>>, <<"delete", "client", 0>>, <<"close", "client", 0>> >>

\* C7: a session that was relaying and whose handler has returned has sent
\* the normal-closure frame on the client and on the upstream connection,
\* then closed both and unregistered, and did so on the first completion
\* signal.
C7_SessionEndOnFirstDone ==
    \A s \in Sessions :
        (Relayed(s) /\ hpc[s] = "returned") =>
            /\ hops[s] = SessionEndOps
            /\ conn[s]["client"] = "closed" /\ conn[s]["upstream"] = "closed"
            /\ s \notin registry

HasFrame(s, x, frame) == \E i \in 1..Len(out[s][x]) : out[s][x][i] = frame

InternalErrorFrame == CloseFrame(CloseInternalServerErr, "Failed to connect to Deepgram")

\* C8 as stated: after a failed dial the client is sent the close frame with
\* the internal-server-error code before the server closes the client
\* socket; the connection is unregistered, no forwarder is ever started and
\* the dial is attempted once.
C8_DialFailureNotifiesClient ==
    \A s \in Sessions :
        (DialFailed(s) /\ hpc[s] # "dialFailed") =>
            /\ HasFrame(s, "client", InternalErrorFrame)
            /\ hpc[s] = "returned" => (s \notin registry /\ conn[s]["client"] = "closed")
            /\ \A d \in Dirs : fpc[s][d] = "off"
            /\ dials[s] = 1

DialFailureOps ==
    << <<"write", "client", CloseInternalServerErr>>, <<"delete", "client", 0>>,
       <<"close", "client", 0>> >>

\* C8 amended: after a failed dial the handler writes the close frame with
\* the internal-server-error code before it unregisters and closes the
\* client socket itself; the client is sent the frame unless the shutdown
\* task has taken up that connection; the connection is unregistered, no
\* forwarder is ever started and the dial is attempted once.
C8_DialFailureHandled ==
    \A s \in Sessions :
        (DialFailed(s) /\ hpc[s] # "dialFailed") =>
            /\ IsPrefixOf(hops[s], DialFailureOps)
            /\ hops[s] # <<>>
            /\ (HasFrame(s, "client", InternalErrorFrame) \/ s \in visited)
            /\ hpc[s] = "returned" =>
                  (hops[s] = DialFailureOps /\ s \notin registry /\ conn[s]["client"] = "closed")
            /\ \A d \in Dirs : fpc[s][d] = "off" /\ counter[s][d] = 0
            /\ doneCh[s] = 0
            /\ dials[s] = 1

\* the handler returned after a failed dial and the client got the frame
C8_Witness ==
    \E s \in Sessions :
        /\ DialFailed(s)
        /\ hpc[s] = "returned"
        /\ out[s]["client"] = <<InternalErrorFrame>>

ClientOpen(s) == conn[s]["client"] \in {"open", "closeSent"}

\* C9 as stated: every upgraded, not yet closed client connection has an
\* entry, and no closed connection has one.
C9_RegistryExact ==
    \A s \in Sessions : s \in registry <=> ClientOpen(s)

\* the handler is between its Store and its deferred Delete
HoldsEntry(s) ==
    hpc[s] \in {"registered", "dialFailed", "waitDone", "closeClient", "closeUpstream",
                "deferCloseUpstream", "deferDelete"}

C9_Entries ==
    \A s \in Sessions :
        /\ s \in registry <=> HoldsEntry(s)
        /\ s \in registry => conn[s]["client"] # "none"
        /\ (ClientOpen(s) /\ s \notin registry) => hpc[s] \in {"upgraded", "deferClose"}
        /\ (s \in registry /\ ~ClientOpen(s)) => s \in visited

C9_Removal ==
    \A s \in Sessions :
        /\ (s \in registry /\ s \notin registry') =>
              (hpc[s] = "deferDelete" /\ hpc'[s] = "deferClose")
        /\ (s \notin registry /\ s \in registry') =>
              (hpc[s] = "upgraded" /\ hops[s] = <<>>)

\* C9 amended: a client connection has exactly one entry from its handler's
\* Store until that handler's deferred Delete; an open connection lacks its
\* entry only between Upgrade and Store and between the deferred Delete and
\* Close; a closed connection has an entry only when the shutdown task
\* closed it and its handler has not yet cleaned up; an entry is removed
\* once, by its own handler's deferred Delete, and never stored again.
C9_RegistryFollowsHandler == []C9_Entries /\ [][C9_Removal]_vars

\* both sessions registered, one closed by the shutdown task and still entered
C9_Witness ==
    /\ registry = Sessions
    /\ \E s \in Sessions : conn[s]["client"] = "closed" /\ s \in visited
    /\ \E s \in Sessions : conn[s]["client"] = "open"

ListenerShutDown == spc \in {"shuttingDown", "done"}

Position(ops, op) == CHOOSE i \in 1..Len(ops) : ops[i] = op
Did(ops, op) == \E i \in 1..Len(ops) : ops[i] = op

\* C10 as stated: every connection registered when the signal arrived is
\* sent the going-away frame before the listener is shut down, and the
\* registry is empty once shutdown has completed.
C10_AllNotifiedRegistryEmpty ==
    /\ ListenerShutDown => \A s \in atSignal : Did(sops, <<"write", s>>)
    /\ spc = "done" => registry = {}

\* C10 amended: before it shuts the listener down, gracefulShutdown has
\* written the going-away frame to, and then closed, every connection
\* registered when the signal arrived that its own handler had not
\* unregistered in the meantime; it removes no entry itself, so an entry
\* stays until its handler's cleanup, which may be after shutdown completed.
C10_ShutdownNotifiesRegistered ==
    /\ spc \in {"shutdownServer", "shuttingDown", "done"} =>
          \A s \in atSignal :
              \/ /\ Did(sops, <<"write", s>>) /\ Did(sops, <<"close", s>>)
                 /\ Position(sops, <<"write", s>>) < Position(sops, <<"close", s>>)
                 /\ conn[s]["client"] = "closed"
              \/ hpc[s] \in {"deferClose", "returned"}
    /\ Did(sops, <<"shutdown", "">>) => sops[Len(sops)] = <<"shutdown", "">>
    /\ \A s \in Sessions : (HoldsEntry(s) /\ hpc[s] # "deferDelete") => s \in registry

GoingAwayFrame == CloseFrame(CloseGoingAway, "Server shutting down")

\* shutdown has completed after notifying both sessions, which were
\* registered at the signal; both entries are still there
C10_Witness ==
    /\ spc = "done"
    /\ atSignal = Sessions
    /\ \A s \in Sessions : HasFrame(s, "client", GoingAwayFrame)
    /\ registry = Sessions

\* --------------------------------------------------------------- C11..C20

\* C11: no event inside a session (failed authentication, upgrade or dial,
\* a read or write error, a peer's close, a close written by the shutdown
\* task) terminates the process.
C11_SessionErrorsContained == proc # "crashed"

EntryValid(protocols, i) ==
    /\ HasPrefix(protocols[i], AccessPrefix)
    /\ validateToken(TrimPrefix(protocols[i], AccessPrefix), SessionSecret) = "nil"

\* the first offered entry "access_token.<token>" whose token validates
FirstValidEntry(protocols) ==
    protocols[CHOOSE i \in 1..Len(protocols) :
                  /\ EntryValid(protocols, i)
                  /\ \A j \in 1..(i - 1) : ~EntryValid(protocols, j)]

\* C14: on every successful upgrade the subprotocol answered to the client
\* is the first offered entry "access_token.<token>" whose token validates,
\* as offered, and never empty; no subprotocol is answered otherwise.
C14_SubprotocolEcho ==
    \A s \in Sessions :
        /\ Upgraded(s) =>
              /\ HasValidEntry(offer[s])
              /\ proto[s] = FirstValidEntry(offer[s])
              /\ proto[s] # EmptyString
        /\ ~Upgraded(s) => proto[s] = EmptyString

\* an upgrade answered with the third offered entry: the first is no token,
\* the second is forged, the fourth would validate too
C14_Witness ==
    \E s \in Sessions :
        /\ Upgraded(s)
        /\ Len(offer[s]) = 4
        /\ proto[s] = offer[s][3]
        /\ HasPrefix(offer[s][2], AccessPrefix)
        /\ EntryValid(offer[s], 4)
        /\ offer[s][4] # offer[s][3]

Unregistered(s) == s \notin registry /\ Did(hops[s], <<"delete", "client", 0>>)

C15_Registered ==
    \A s \in Sessions :
        /\ dials[s] > 0 => (s \in registry \/ Unregistered(s))
        /\ (hpc[s] = "returned" /\ conn[s]["client"] # "none") => Unregistered(s)

C15_DialStep == \A s \in Sessions : dials'[s] # dials[s] => s \in registry

\* C15: the upstream dial is attempted only while the client connection is
\* in the registry, and whenever a handler returns after the upgrade (dial
\* failure, relay end, connection closed by shutdown) its connection has
\* been removed from the registry.
C15_RegisterBeforeDial == []C15_Registered /\ [][C15_DialStep]_vars

\* a relaying session that the shutdown task closed has returned, unregistered
C15_Witness ==
    \E s \in Sessions :
        /\ hpc[s] = "returned" /\ Relayed(s)
        /\ s \in visited
        /\ Unregistered(s)

\* the state of the specification's session state machine a handler is in
SessionStateOf(pc) ==
    CASE pc = "idle" -> "AwaitingAuth"
      [] pc = "upgraded" -> "Upgraded"
      [] pc = "registered" -> "UpstreamConnecting"
      [] pc = "waitDone" -> "Relaying"
      [] OTHER -> "Closed"

SessionMoves ==
    { <<"AwaitingAuth", "Upgraded">>, <<"Upgraded", "UpstreamConnecting">>,
      <<"UpstreamConnecting", "Relaying">>, <<"Relaying", "Closed">>,
      <<"AwaitingAuth", "Closed">>, <<"Upgraded", "Closed">>,
      <<"UpstreamConnecting", "Closed">> }

C16_Move ==
    \A s \in Sessions :
        /\ SessionStateOf(hpc'[s]) # SessionStateOf(hpc[s]) =>
              <<SessionStateOf(hpc[s]), SessionStateOf(hpc'[s])>> \in SessionMoves
        /\ hpc[s] \in {"returned", "unauthorized", "upgradeFailed"} => hpc'[s] = hpc[s]
        /\ dials'[s] # dials[s] =>
              /\ SessionStateOf(hpc[s]) = "UpstreamConnecting"
              /\ dials[s] = 0 /\ dials'[s] = 1

\* C16: every session moves only forward along AwaitingAuth, Upgraded,
\* UpstreamConnecting, Relaying, Closed, possibly closing early; a handler
\* that has returned stays returned; the upstream is dialled at most once
\* per session, from UpstreamConnecting.
C16_SessionStateMachine == [](\A s \in Sessions : dials[s] <= 1) /\ [][C16_Move]_vars

\* a session whose upstream closed first has returned after a single dial
C16_Witness ==
    \E s \in Sessions :
        /\ hpc[s] = "returned"
        /\ fpc[s]["u2c"] = "done" /\ fpc[s]["c2u"] # "done"
        /\ dials[s] = 1

\* C17 as stated: once the handler has finished its teardown no forwarding
\* task of the session is still reading or writing.
C17_ForwardersNested ==
    \A s \in Sessions, d \in Dirs :
        hpc[s] = "returned" => fpc[s][d] \in {"off", "signal", "done"}

C17_Started ==
    \A s \in Sessions :
        /\ (\E d \in Dirs : fpc[s][d] # "off") <=> Relayed(s)
        /\ (\E d \in Dirs : fpc[s][d] # "off") => (\A d \in Dirs : fpc[s][d] # "off")

C17_Steps ==
    \A s \in Sessions :
        /\ \A d \in Dirs :
              /\ (fpc[s][d] = "off" /\ fpc'[s][d] # "off") =>
                    (hpc[s] = "registered" /\ hpc'[s] = "waitDone")
              /\ fpc[s][d] # "off" => fpc'[s][d] # "off"
        /\ hpc[s] = "returned" => out'[s] = out[s]

\* C17 amended: a session starts its two forwarding tasks, one per
\* direction, together and once, when the dial has succeeded, and no session
\* starts one otherwise; the task that was not awaited may still be inside
\* its read or write when the handler returns, but nothing is written to
\* either peer after the handler has finished its teardown.
C17_ForwardersStartedInSession == []C17_Started /\ [][C17_Steps]_vars

\* the handler has returned while the other forwarder holds a message to write
C17_Witness ==
    \E s \in Sessions, d \in Dirs :
        /\ hpc[s] = "returned"
        /\ fpc[s][d] = "write"
        /\ fmsg[s][d] # NoMsg

C18_FailedSendStep ==
    (/\ spc = "write"
     /\ conn[cur]["client"] # "open"
     /\ ~ForwarderWriting(cur, "client")
     /\ sops' # sops)
    => /\ sops' = Append(sops, <<"write", cur>>)
       /\ spc' = "close"
       /\ proc' = "running"
       /\ out' = out /\ registry' = registry

C18_Continues ==
    spc = "done" =>
        \A s \in snapshot : HoldsEntry(s) => Did(sops, <<"write", s>>)

Written(s, d) == Len(DataFrames(out[s][Dst(d)]))

C20_Counters ==
    \A s \in Sessions :
        /\ \A d \in Dirs :
              /\ counter[s][d] = Len(sent[s][d]) - Len(inq[s][d])
              /\ counter[s][d] - Written(s, d) \in {0, 1}
              /\ fpc[s][d] = "read" => counter[s][d] = Written(s, d)
              /\ fpc[s][d] \in {"write", "writeRaced"} => counter[s][d] = Written(s, d) + 1
              /\ fpc[s][d] = "off" => counter[s][d] = 0
        /\ doneCh[s] + (IF SessionStateOf(hpc[s]) = "Closed" /\ Relayed(s) THEN 1 ELSE 0)
             = Cardinality({d \in Dirs : fpc[s][d] = "done"})

C20_Steps ==
    \A s \in Sessions, d \in Dirs :
        /\ fpc[s][d] \in {"signal", "done"} =>
              /\ fpc'[s][d] \in {"signal", "done"}
              /\ counter'[s][d] = counter[s][d]
              /\ DataFrames(out'[s][Dst(d)]) = DataFrames(out[s][Dst(d)])
        /\ fpc[s][d] = "done" => fpc'[s][d] = "done"
        /\ (fpc[s][d] \in {"write", "writeRaced"} /\ fpc'[s][d] = "signal") =>
              out'[s][Dst(d)] = out[s][Dst(d)]
        /\ counter'[s][d] # counter[s][d] =>
              (fpc[s][d] = "read" /\ fpc'[s][d] = "write" /\ counter'[s][d] = counter[s][d] + 1)

\* C20: in each direction the counter is the number of messages read, it is
\* incremented with each read and before the write, so it exceeds the number
\* of messages written by one while a write is due or after a failed write
\* and by zero otherwise; the loop ends at the first failed read or write,
\* reads and writes nothing afterwards, and signals completion once.
C20_ForwarderStep == []C20_Counters /\ [][C20_Steps]_vars

\* a forwarder wrote its first message, failed to write its second and signalled
C20_Witness ==
    \E s \in Sessions, d \in Dirs :
        /\ fpc[s][d] = "done"
        /\ counter[s][d] = 2
        /\ Written(s, d) = 1

\* ------------------------------------------------------------ C12, C13

UrlBuilt == call.fn = "buildDeepgramURL" /\ call.at # NoClaim

\* the positions of the well-formed pairs with the name in a raw query
PairsNamed(raw, n) == {i \in 1..Len(raw) : raw[i].name = n /\ ~Malformed(raw[i].value)}

\* what the client supplies for a name: its first well-formed value, "" if none
Supplied(raw, n) ==
    IF PairsNamed(raw, n) = {} THEN ""
    ELSE QueryUnescape(raw[CHOOSE i \in PairsNamed(raw, n) :
                               \A j \in PairsNamed(raw, n) : i <= j].value)

DefaultOf(n) == params[CHOOSE i \in 1..Len(params) : params[i][1] = n][2]

\* C12: the constructed URL has each of the nine names exactly once, with a
\* non-empty value: the value the client supplies for the name when that is
\* non-empty, the default otherwise; building again from the result with the
\* same request gives the same URL.
C12_BuildUrlTotal ==
    UrlBuilt =>
        /\ \A n \in Recognized :
              /\ Cardinality(PairsNamed(call.ret.rawQuery, n)) = 1
              /\ Supplied(call.ret.rawQuery, n) # ""
              /\ Supplied(call.ret.rawQuery, n) =
                    IF Supplied(call.query, n) # "" THEN Supplied(call.query, n)
                    ELSE DefaultOf(n)
        /\ call.at = 1 => call.again = call.ret

\* the client supplied one name with a value that needs escaping, one with
\* an empty value, and the URL was built twice
C12_Witness ==
    /\ UrlBuilt /\ call.at = 1
    /\ \E n, m \in Recognized :
          /\ Supplied(call.query, n) = "en US"
          /\ PairsNamed(call.query, m) # {} /\ Supplied(call.query, m) = ""
          /\ Supplied(call.ret.rawQuery, m) = DefaultOf(m)

\* C13 as stated: no parameter the caller supplies under another name than
\* the nine is dropped, and a recognized name already in the base URL is
\* overwritten, not duplicated.
C13_OthersNeverDropped ==
    UrlBuilt =>
        /\ \A n \in Names \ Recognized :
              /\ ValuesOf(call.query, n) # <<>> => PairsNamed(call.ret.rawQuery, n) # {}
              /\ ValuesOf(call.baseURL.rawQuery, n) # <<>> =>
                    PairsNamed(call.ret.rawQuery, n) # {}
        /\ \A n \in Recognized : Cardinality(PairsNamed(call.ret.rawQuery, n)) = 1

\* C13 amended: the well-formed parameters of the base URL under other names
\* than the nine are all in the constructed URL, with their values and in
\* their order per name, and nothing else is under those names: parameters
\* of the client's request under other names are not forwarded; a recognized
\* name already in the base URL is overwritten, not duplicated.
C13_BaseOthersPreserved ==
    UrlBuilt =>
        /\ \A n \in Names \ Recognized :
              ValuesOf(call.ret.rawQuery, n) = ValuesOf(call.baseURL.rawQuery, n)
        /\ \A n \in Recognized : Cardinality(PairsNamed(call.ret.rawQuery, n)) = 1
        /\ \A i \in 1..Len(call.ret.rawQuery) : ~Malformed(call.ret.rawQuery[i].value)

\* a base URL with two values under a recognized name and one under another
\* name, and a request with a parameter under another name
C13_Witness ==
    /\ UrlBuilt
    /\ Cardinality(PairsNamed(call.baseURL.rawQuery, "model")) = 2
    /\ ValuesOf(call.ret.rawQuery, "tag") = <<"en US">>
    /\ ValuesOf(call.query, "keywords") # <<>>
    /\ ValuesOf(call.ret.rawQuery, "keywords") = <<>>

\* ------------------------------------------------------------------ C19

\* the test process is over: the test function ended or the process panicked
TestOver == tproc = "panicked" \/ tpc \in {"finished", "timedOut", "fatal"}

SpeechFinalTranscript(mr) ==
    /\ mr.alternatives > 0
    /\ mr.isFinal /\ mr.speechFinal
    /\ TrimSpace(mr.transcript) # ""

\* C19: once the client is connected the test ends only after a transcript
\* that is final and speech-final has been delivered to the Message callback
\* and signalled, or by its timeout; the signal is sent only for a result
\* with IsFinal and SpeechFinal set and a non-empty transcript, with the
\* sentence buffer reset; the client is stopped once the signal is received.
C19_SdkTestSignalsTranscript ==
    /\ (TestOver /\ tpc \notin {"timedOut", "fatal"}) => (Len(signals) = 1 /\ stopped)
    /\ cpc = "sending" => (SpeechFinalTranscript(cmsg) /\ sb = <<>>)
    /\ \A i \in 1..Len(signals) : SpeechFinalTranscript(signals[i])
    /\ stopped => Len(signals) = 1

\* ------------------------------------------------------------------ C21

\* a write of a forwarder, or of the shutdown callback, has overlapped
\* another goroutine's write of the same connection
OverlappedWrite ==
    \/ \E s \in Sessions, d \in Dirs : fpc[s][d] = "writeRaced"
    \/ spc = "writeRaced"

\* C21: no two goroutines ever write the same WebSocket connection at the
\* same time: neither the handler's normal-closure frames nor the shutdown
\* task's going-away frame overlaps a forwarder's write of that connection.
C21_SingleWriter == ~OverlappedWrite

\* ------------------------------------------------------------------ C22

ForwardersOver(s) == \A d \in Dirs : fpc[s][d] \in {"off", "done"}

\* C22 (as a state property): a forwarder that has reached its deferred
\* completion send finds room in the done channel, and the channel never
\* holds more than its two signals.
C22_SignalNeverBlocks ==
    \A s \in Sessions :
        /\ doneCh[s] <= DoneCap
        /\ \A d \in Dirs : fpc[s][d] = "signal" => doneCh[s] < DoneCap

\* C22: once the handler of a session has returned, both of its forwarders
\* terminate (or the process itself ends, and every goroutine with it); the
\* completion send never blocks.
C22_ForwardersTerminate ==
    /\ []C22_SignalNeverBlocks
    /\ \A s \in RelaySessions :
          (hpc[s] = "returned") ~> (ForwardersOver(s) \/ ~Running)

\* the handler has returned on the first signal and the other forwarder,
\* which was not awaited, has sent the second signal and ended, with the
\* process still running
C22_Witness ==
    /\ Running
    /\ hpc["s1"] = "returned"
    /\ fpc["s1"] = [d \in Dirs |-> "done"]
    /\ doneCh["s1"] = 1

\* ------------------------------------------------------------------ C23

\* C23: when handleLiveTranscription has returned after a successful
\* upgrade, clientConn is closed and no longer in the registry, and
\* deepgramConn, if the dial gave one, is closed.
C23_CleanupOnReturn ==
    \A s \in Sessions :
        (hpc[s] = "returned") =>
            /\ conn[s]["client"] = "closed"
            /\ s \notin registry
            /\ conn[s]["upstream"] \in {"none", "closed"}

\* a relaying session whose client connection the shutdown task closed has
\* returned, and so has one whose dial failed (in another run)
C23_Witness ==
    /\ hpc["s1"] = "returned"
    /\ conn["s1"]["upstream"] = "closed"
    /\ Did(sops, <<"close", "s1">>)

\* ------------------------------------------------------------------ C24

\* C24: once gracefulShutdown is complete, every client connection in the
\* registry, whenever it was registered, has been sent the going-away frame
\* and closed by the shutdown task.
C24_LateRegistrationNotified ==
    (spc = "done") =>
        \A s \in registry : Did(sops, <<"write", s>>) /\ Did(sops, <<"close", s>>)

\* ------------------------------------------------------------------ C25

\* the handler is past its setup with the upstream client connected
Connected == dg \in {"connected", "stopped"}

\* C25: the Message callback is never left waiting on SendChan by a handler
\* that has returned: every transcript it sends is received by the handler
\* loop.
C25_SendNeverStranded == ~(kpc = "sending" /\ wpc = "returned")

\* ------------------------------------------------------------------ C26

\* the binary payloads among the first n messages of the client
RECURSIVE BinaryPayloads(_, _)
BinaryPayloads(msgs, n) ==
    IF n = 0 THEN <<>>
    ELSE IF msgs[n].type = BinaryMessage
         THEN Append(BinaryPayloads(msgs, n - 1), msgs[n].data)
         ELSE BinaryPayloads(msgs, n - 1)

\* a is b with some of its elements left out (the writes that failed)
RECURSIVE IsSubsequenceOf(_, _)
IsSubsequenceOf(a, b) ==
    IF a = <<>> THEN TRUE
    ELSE IF b = <<>> THEN FALSE
    ELSE IF Head(a) = Head(b) THEN IsSubsequenceOf(Tail(a), Tail(b))
    ELSE IsSubsequenceOf(a, Tail(b))

\* a step of the handler loop that reads a message of the client
C26_ReadStep ==
    (wpc = "reading" /\ cin # <<>> /\ cin' = Tail(cin)) =>
        LET m == Head(cin) IN
        IF m.type = BinaryMessage
        THEN /\ upAudio' \in {upAudio, Append(upAudio, m.data)}
             /\ wpc' = "loop"
        ELSE IF m.data = CloseMicrophone
        THEN /\ dg' = "stopped"
             /\ wpc' = "returned"
             /\ upAudio' = upAudio
        ELSE /\ wpc' = "loop"
             /\ dg' = dg
             /\ upAudio' = upAudio

\* C26: binary messages go upstream in arrival order and a failed upstream
\* write keeps the session going; a closeMicrophone text message stops the
\* upstream client and ends the session, and no audio goes upstream after
\* the handler has returned; every other text message is ignored: nothing is
\* forwarded and the session goes on.
C26_ClientProtocol ==
    /\ [](IsSubsequenceOf(upAudio, BinaryPayloads(csent, Len(csent) - Len(cin))))
    /\ [][C26_ReadStep]_vars
    /\ [][wpc = "returned" => upAudio' = upAudio]_vars

\* ------------------------------------------------------------------ C27

\* C27: when handleWebSocket has returned after the upstream client
\* connected, the upstream client has been stopped and the client's
\* connection has been closed.
C27_ReleasedOnReturn ==
    (wpc = "returned" /\ Connected) => (dg = "stopped" /\ wconn = "closed")

\* ------------------------------------------------------------------ C28

Forwardable(mr) == mr.alternatives > 0 /\ TrimSpace(mr.transcript) # ""

\* a call of the Message callback
C28_CallbackStep ==
    (dres # <<>> /\ dres' = Tail(dres)) =>
        LET mr == Head(dres) IN
        IF Forwardable(mr)
        THEN IF variant = "chan"
             THEN kpc' = "sending" /\ kmsg' = mr
             ELSE wout' \in {wout, Append(wout, SentenceFrame(TrimSpace(mr.transcript)))}
        ELSE /\ kpc' = "idle"
             /\ kmsg' = kmsg
             /\ wout' = wout
             /\ wproc' = wproc

\* C28: the Message callback forwards a result exactly when it has an
\* alternative whose trimmed transcript is not empty; on any other result it
\* returns nil: nothing is sent and nothing fails.
C28_ForwardsNonEmptyOnly == [][C28_CallbackStep]_vars

====
